---- MODULE Spec2Model ----
(***************************************************************************)
(* Exam seat allocation: the regular (seating_logic.py), first-year        *)
(* (seating_logic_firstyear.py) and university                             *)
(* (seating_logic_university.py) strategies over one document store.       *)
(*                                                                         *)
(* A student is identified by its position 1..n in ascending student_id    *)
(* order, a room by its position in ascending room_no order.  Every        *)
(* allocation run keeps its local state (cohort queues, grid, loop         *)
(* indices) in run[p]; the store holds room_no and seat_no per student.    *)
(***************************************************************************)
EXTENDS Integers, Sequences, FiniteSets, TLC

\* ------------------------------------------------------------- bounds
NStud == 4
MaxPerDept == 3
NMid == 5
MaxRows == 2
MaxCols == 3
NRooms == 2

Runs == {1, 2}
DBs == {1, 2}

VARIABLES
  strategy,   \* which allocation route is requested
  students,   \* the student documents, in ascending student_id order
  rooms,      \* the room documents, in ascending room_no order
  mode,       \* how the runs are scheduled (see MayStart)
  store0,     \* room_no and seat_no of every student before the first run
  store,      \* room_no and seat_no of every student, per store
  run         \* the local state of each allocation run

scenario == <<strategy, students, rooms, mode, store0>>

vars == <<strategy, students, rooms, mode, store0, store, run>>

\* ------------------------------------------------------------- values
None == "None"
NoStudent == 0
RoomNames == <<"R1", "R2", "R3", "R4">>
\* department names in the order Python's sorted() puts them
DeptNames == <<"AIML", "CSE", "ECE", "EEE", "ME", "cse">>
DivNames == <<"A", "B">>

\* a stored year, row count or column count that int() rejects (ValueError)
NotANumber == 0 - 99

IntRaises(v) == v = NotANumber

Chr(n) == <<"A", "B", "C", "D", "E", "F", "G", "H">>[n - 64]

\* the column letter taken from the row index
SeatLabelRowLetter(col_index, row_index) ==
  Chr(65 + row_index) \o ToString(row_index + 1)

SeatLabel(col_index, row_index) == Chr(65 + col_index) \o ToString(row_index + 1)

UniSeatLabel(c, r) == Chr(65 + c) \o ToString(r + 1)

Upper(d) == IF d = "cse" THEN "CSE" ELSE d

Ids == 1..Len(students)

\* the ascending sequence of a set of student positions (the cursor's sort)
RECURSIVE SortedSeq(_)
SortedSeq(S) ==
  IF S = {} THEN <<>>
  ELSE LET m == CHOOSE x \in S : \A y \in S : x <= y
       IN <<m>> \o SortedSeq(S \ {m})

\* ------------------------------------------------------------- cohorts
RegularKey(i) == <<students[i].year, students[i].dept, students[i].div>>

FirstYearKey(i) == <<Upper(students[i].dept)>>

UniversityKey(i) == <<students[i].dept>>

KeyOf(i) ==
  CASE strategy = "regular" -> RegularKey(i)
    [] strategy = "firstyear" -> FirstYearKey(i)
    [] OTHER -> UniversityKey(i)

DbOf(p) == IF mode = "pair" THEN p ELSE 1

\* find({}) in place of find({"room_no": None})
UnallocatedAll(d) == Ids

Unallocated(d) == {i \in Ids : store[d][i].room_no = None}

\* the descending sequence of a set of student positions
RECURSIVE SortedSeqDescending(_)
SortedSeqDescending(S) ==
  IF S = {} THEN <<>>
  ELSE LET m == CHOOSE x \in S : \A y \in S : x >= y
       IN <<m>> \o SortedSeqDescending(S \ {m})

\* the queues filled from a cursor sorted the wrong way round
FetchQueuesDescending(S) ==
  [k \in {KeyOf(i) : i \in S} |-> SortedSeqDescending({i \in S : KeyOf(i) = k})]

\* _fetch_unallocated_students: cohort key -> queue in ascending student_id
FetchQueues(S) ==
  [k \in {KeyOf(i) : i \in S} |-> SortedSeq({i \in S : KeyOf(i) = k})]

NonEmpty(l) == {k \in l.keys : l.queues[k] # <<>>}

\* ------------------------------------------------------------- compatibility
\* regular: different department or different year than the left neighbour
RegularCompatible(gk, left) ==
  gk[2] # students[left].dept \/ gk[1] # students[left].year

ForbiddenPairs == {{"CSE", "AIML"}, {"ECE", "EEE"}}

\* the forbidden-pairs table left out of the test
IsCompatibleSameOnly(dept_a, dept_b) == dept_a # dept_b

\* first-year is_compatible(dept_a, dept_b)
IsCompatible(dept_a, dept_b) ==
  IF dept_a = dept_b THEN FALSE
  ELSE \A f \in ForbiddenPairs : ~(f \subseteq {Upper(dept_a), Upper(dept_b)})

\* ------------------------------------------------------------- local state
EmptyCell == [sid |-> NoStudent, tier |-> 0, ref |-> 0 - 1]

Local0 ==
  [pc |-> "idle", queues |-> <<>>, keys |-> {}, order |-> <<>>, ri |-> 0,
   grid |-> <<>>, col |-> 0, row |-> 0, chosen |-> <<>>, tier |-> 0,
   ref |-> 0 - 1, colinfo |-> <<>>, hall |-> <<>>, wi |-> 0,
   slots |-> <<0, 0>>, deptList |-> <<>>, log |-> <<>>]

Room(l) == rooms[l.order[l.ri]]
RoomName(l) == RoomNames[l.order[l.ri]]

\* grid = [[None for _ in range(cols)] for _ in range(rows)]
NewGrid(rm) == [r \in 0..(rm.rows - 1) |-> [c \in 0..(rm.cols - 1) |-> EmptyCell]]

\* the room loop of the regular and first-year drivers: room number i of the
\* processing order, or the end of the run
BeginRoom(l, i) ==
  IF i > Len(l.order)
  THEN [l EXCEPT !.pc = "done", !.ri = i]
  ELSE [l EXCEPT !.pc = "col", !.ri = i, !.grid = NewGrid(rooms[l.order[i]]),
                 !.col = 0, !.row = 0, !.hall = <<>>, !.colinfo = <<>>,
                 !.chosen = <<>>, !.tier = 0, !.ref = 0 - 1, !.wi = 0]

\* return assignments; "if not hall_assignments: continue", else the updates
EndHall(l) ==
  IF l.hall = <<>> THEN BeginRoom(l, l.ri + 1)
  ELSE [l EXCEPT !.pc = "write", !.wi = 1]

Perms(n) == {f \in [1..n -> 1..n] : \A i, j \in 1..n : i # j => f[i] # f[j]}

\* random.shuffle(rooms) for regular; sort("room_no", 1) for first-year
RoomOrders ==
  IF strategy = "regular" THEN Perms(Len(rooms))
  ELSE {[i \in 1..Len(rooms) |-> i]}

\* ------------------------------------------------------------- scheduling
\* mode "single": one run (run 1).  mode "seq": run 2 follows run 1 on the same
\* store.  mode "pair": the two runs work on two separate stores.  mode "race":
\* two requests are served at once on the same store (app.py serves each
\* /admin/allocate request without mutual exclusion).
Active(q) == run[q].pc \notin {"idle", "done", "crashed", "failed", "invalid"}

\* Column and row steps read and write only the run's own local state, so a
\* store operation of another run is scheduled before or after them, never
\* in between: the store sees the same orders of reads and writes.
Quiet(p) == \A q \in Runs \ {p} : run[q].pc \notin {"col", "row"}

MayStart(p) ==
  /\ mode = "single" => p = 1
  /\ mode # "race" => \A q \in Runs \ {p} : ~Active(q)
  /\ p = 2 => run[1].pc # "idle"
  /\ Quiet(p)

\* ------------------------------------------------------------- driver
\* _fetch_unallocated_students converts int(student["year"]) (regular only),
\* _fetch_rooms converts int(r["no_of_rows"]) and int(r["no_of_columns"]) of
\* every room
FetchRaises(S) ==
  \/ strategy = "regular" /\ \E i \in S : IntRaises(students[i].year)
  \/ \E i \in DOMAIN rooms : IntRaises(rooms[i].rows) \/ IntRaises(rooms[i].cols)

Fetch(p) ==
  /\ run[p].pc = "idle"
  /\ strategy \in {"regular", "firstyear"}
  /\ MayStart(p)
  /\ LET q == FetchQueues(Unallocated(DbOf(p)))
     IN IF FetchRaises(Unallocated(DbOf(p)))
        THEN run' = [run EXCEPT ![p] = [@ EXCEPT !.pc = "invalid"]]
        ELSE IF DOMAIN q = {} \/ Len(rooms) = 0
        THEN run' = [run EXCEPT ![p] = [@ EXCEPT !.pc = "done"]]
        ELSE \E o \in RoomOrders :
               run' = [run EXCEPT ![p] =
                         BeginRoom([@ EXCEPT !.queues = q, !.keys = DOMAIN q,
                                             !.order = o], 1)]
  /\ UNCHANGED <<scenario, store>>

\* ------------------------------------------------------------- grid filler
\* the candidates of a column start: <<tier, keys>>
RegularStartCandidates(l, left) ==
  LET valid == {gk \in NonEmpty(l) :
                  left = NoStudent \/ RegularCompatible(gk, left)}
  IN IF valid # {} THEN <<1, valid>> ELSE <<3, NonEmpty(l)>>

\* tier 1, then any non-empty cohort: the "different department" tier skipped
FirstYearStartCandidatesTwoTiers(l, left) ==
  LET t1 == {gk \in NonEmpty(l) :
               left = NoStudent \/ IsCompatible(gk[1], students[left].dept)}
  IN IF t1 # {} THEN <<1, t1>> ELSE <<3, NonEmpty(l)>>

\* tier 1 alone, without the two fallback tiers
FirstYearStartCandidatesNoFallback(l, left) ==
  <<1, {gk \in NonEmpty(l) :
          left = NoStudent \/ IsCompatible(gk[1], students[left].dept)}>>

FirstYearStartCandidates(l, left) ==
  LET t1 == {gk \in NonEmpty(l) :
               left = NoStudent \/ IsCompatible(gk[1], students[left].dept)}
      t2 == {gk \in NonEmpty(l) :
               left = NoStudent \/ gk[1] # students[left].dept}
  IN IF t1 # {} THEN <<1, t1>>
     ELSE IF t2 # {} THEN <<2, t2>>
     ELSE <<3, NonEmpty(l)>>

\* every non-empty cohort taken as a candidate, the neighbour not looked at
StartCandidatesUnfiltered(l, left) == <<1, NonEmpty(l)>>

StartCandidates(l, left) ==
  IF strategy = "regular" THEN RegularStartCandidates(l, left)
  ELSE FirstYearStartCandidates(l, left)

\* the candidates of a mid-column re-selection
RegularRowCandidates(l, left) ==
  <<1, {gk \in NonEmpty(l) : left = NoStudent \/ RegularCompatible(gk, left)}>>

\* tier 1 alone on a mid-column re-selection
FirstYearRowCandidatesTierOne(l, left) ==
  <<1, {gk \in NonEmpty(l) :
          left = NoStudent \/ IsCompatible(gk[1], students[left].dept)}>>

FirstYearRowCandidates(l, left) ==
  LET tier1 == {gk \in NonEmpty(l) :
                  left = NoStudent \/ IsCompatible(gk[1], students[left].dept)}
  IN IF tier1 # {} THEN <<1, tier1>> ELSE <<3, NonEmpty(l)>>

RowCandidates(l, left) ==
  IF strategy = "regular" THEN RegularRowCandidates(l, left)
  ELSE FirstYearRowCandidates(l, left)

\* grid[0][col_index - 1] raises IndexError on a grid without rows; the
\* first-year filler subscripts the cell, which raises TypeError on None
StartRaises(l) ==
  /\ l.col > 0
  /\ \/ Room(l).rows <= 0
     \/ strategy = "firstyear" /\ l.grid[0][l.col - 1].sid = NoStudent

RowRaises(l) ==
  /\ l.col > 0
  /\ strategy = "firstyear"
  /\ l.grid[l.row][l.col - 1].sid = NoStudent

\* the row loop left without moving to the next column
NextColumnStay(l) == [l EXCEPT !.pc = "col", !.row = 0]

\* the local state after a column's row loop is over
NextColumn(l) == [l EXCEPT !.pc = "col", !.col = l.col + 1, !.row = 0]

ColumnStart(p) ==
  /\ run[p].pc = "col"
  /\ LET l == run[p]
     IN IF l.col >= Room(l).cols
        THEN run' = [run EXCEPT ![p] = EndHall(l)]
        ELSE IF StartRaises(l)
        THEN run' = [run EXCEPT ![p] = [l EXCEPT !.pc = "crashed"]]
        ELSE LET left == IF l.col > 0 THEN l.grid[0][l.col - 1].sid ELSE NoStudent
                 cand == StartCandidates(l, left)
                 info(k) == [key |-> k, tier |-> cand[1], switched |-> FALSE,
                             avail |-> NonEmpty(l)]
             IN IF cand[2] = {}
                THEN run' = [run EXCEPT ![p] = EndHall(l)]
                ELSE \E k \in cand[2] :
                       LET m == [l EXCEPT !.chosen = k, !.tier = cand[1],
                                          !.ref = IF l.col > 0 THEN 0 ELSE 0 - 1,
                                          !.colinfo = Append(l.colinfo, info(k))]
                       IN run' = [run EXCEPT ![p] =
                                    IF Room(l).rows <= 0 THEN NextColumn(m)
                                    ELSE [m EXCEPT !.pc = "row", !.row = 0]]
  /\ UNCHANGED <<scenario, store>>

\* the front student read without being removed from the queue
PlaceNoPop(l) ==
  LET s == Head(l.queues[l.chosen])
      a == [sid |-> s, room |-> RoomName(l), ri |-> l.ri,
            seat |-> SeatLabel(l.col, l.row), col |-> l.col, row |-> l.row,
            alone |-> NonEmpty(l) \subseteq {l.chosen}]
      m == [l EXCEPT !.grid[l.row][l.col] = [sid |-> s, tier |-> l.tier, ref |-> l.ref],
                     !.hall = Append(@, a),
                     !.log = Append(@, a)]
  IN IF l.row + 1 >= Room(l).rows THEN NextColumn(m)
     ELSE [m EXCEPT !.row = l.row + 1]

\* student = remaining_groups[chosen].popleft(); grid[row][col] = student;
\* assignments.append(...)
Place(l) ==
  LET s == Head(l.queues[l.chosen])
      a == [sid |-> s, room |-> RoomName(l), ri |-> l.ri,
            seat |-> SeatLabel(l.col, l.row), col |-> l.col, row |-> l.row,
            alone |-> NonEmpty(l) \subseteq {l.chosen}]
      m == [l EXCEPT !.queues[l.chosen] = Tail(@),
                     !.grid[l.row][l.col] = [sid |-> s, tier |-> l.tier, ref |-> l.ref],
                     !.hall = Append(@, a),
                     !.log = Append(@, a)]
  IN IF l.row + 1 >= Room(l).rows THEN NextColumn(m)
     ELSE [m EXCEPT !.row = l.row + 1]

RowStep(p) ==
  /\ run[p].pc = "row"
  /\ LET l == run[p]
     IN IF l.queues[l.chosen] # <<>>
        THEN run' = [run EXCEPT ![p] = Place(l)]
        ELSE IF RowRaises(l)
        THEN run' = [run EXCEPT ![p] = [l EXCEPT !.pc = "crashed"]]
        ELSE LET left == IF l.col > 0 THEN l.grid[l.row][l.col - 1].sid ELSE NoStudent
                 cand == RowCandidates(l, left)
             IN IF cand[2] = {}
                THEN run' = [run EXCEPT ![p] = NextColumn(l)]
                ELSE \E k \in cand[2] :
                       run' = [run EXCEPT ![p] =
                                 Place([l EXCEPT !.chosen = k, !.tier = cand[1],
                                                 !.ref = IF l.col > 0 THEN l.row ELSE 0 - 1,
                                                 !.colinfo[Len(l.colinfo)].switched = TRUE])]
  /\ UNCHANGED <<scenario, store>>

\* db.students.update_one({"student_id": ...}, {"$set": {room_no, seat_no}})
UpdateOne(st, sid, room_no, seat_no) ==
  [st EXCEPT ![sid] = [room_no |-> room_no, seat_no |-> seat_no]]

WriteAssign(p) ==
  /\ run[p].pc = "write"
  /\ Quiet(p)
  /\ LET l == run[p]
         a == l.hall[l.wi]
     IN /\ store' = [store EXCEPT ![DbOf(p)] = UpdateOne(@, a.sid, RoomName(l), a.seat)]
        /\ run' = [run EXCEPT ![p] =
                     IF l.wi + 1 > Len(l.hall) THEN BeginRoom(l, l.ri + 1)
                     ELSE [l EXCEPT !.wi = l.wi + 1]]
  /\ UNCHANGED scenario

\* ------------------------------------------------------------- university
\* an update_many that clears nothing
ClearNothing(st) == st

\* an update_many that clears room_no and leaves seat_no
ClearRoomOnly(st) == [i \in DOMAIN st |-> [room_no |-> None, seat_no |-> st[i].seat_no]]

\* db.students.update_many({}, {"$set": {"room_no": None, "seat_no": None}})
ClearAll(st) == [i \in DOMAIN st |-> [room_no |-> None, seat_no |-> None]]

UReset(p) ==
  /\ run[p].pc = "idle"
  /\ strategy = "university"
  /\ MayStart(p)
  /\ store' = [store EXCEPT ![DbOf(p)] = ClearAll(@)]
  /\ run' = [run EXCEPT ![p] = [@ EXCEPT !.pc = "ufetch"]]
  /\ UNCHANGED scenario

\* dept_list = sorted(list(dept_queues.keys()))
RECURSIVE SortDepts(_, _)
SortDepts(S, i) ==
  IF i > Len(DeptNames) THEN <<>>
  ELSE (IF <<DeptNames[i]>> \in S THEN <<DeptNames[i]>> ELSE <<>>) \o SortDepts(S, i + 1)

\* both slots started on the first department
InitialSlotsSame(dept_list) == <<0, 0>>

\* the two slots started the other way round
InitialSlotsSwapped(dept_list) == <<IF Len(dept_list) > 1 THEN 1 ELSE 0, 0>>

\* active_slots = [0, 1 if len(dept_list) > 1 else 0]
InitialSlots(dept_list) == <<0, IF Len(dept_list) > 1 THEN 1 ELSE 0>>

\* the next iteration of "for room / for c in range(cols) / for r in range(rows)"
\* at or after (room i, column c, row r), or the end of the run; entering a
\* room converts int(room['no_of_columns']) and int(room['no_of_rows'])
RECURSIVE UAdvance(_, _, _, _)
UAdvance(l, i, c, r) ==
  IF i > Len(l.order) THEN [l EXCEPT !.pc = "done", !.ri = i]
  ELSE IF IntRaises(rooms[l.order[i]].cols) \/ IntRaises(rooms[l.order[i]].rows)
  THEN [l EXCEPT !.pc = "invalid", !.ri = i]
  ELSE IF c >= rooms[l.order[i]].cols THEN UAdvance(l, i + 1, 0, 0)
  ELSE IF r >= rooms[l.order[i]].rows THEN UAdvance(l, i, c + 1, 0)
  ELSE [l EXCEPT !.pc = "ucell", !.ri = i, !.col = c, !.row = r]

UFetch(p) ==
  /\ run[p].pc = "ufetch"
  /\ LET q == FetchQueues(Ids)
         dl == SortDepts(DOMAIN q, 1)
         l == run[p]
     IN run' = [run EXCEPT ![p] =
                  IF dl = <<>> THEN [l EXCEPT !.pc = "done"]
                  ELSE UAdvance([l EXCEPT !.queues = q, !.keys = DOMAIN q,
                                          !.deptList = dl, !.slots = InitialSlots(dl),
                                          !.order = [i \in 1..Len(rooms) |-> i]],
                                1, 0, 0)]
  /\ UNCHANGED <<scenario, store>>

\* the departments the waterfall search visits, in order, from dept_idx:
\* those that are not the other slot's and still have students
RECURSIVE Scan(_, _, _, _)
Scan(l, dept_idx, other_dept_idx, i) ==
  IF i >= Len(l.deptList) THEN <<>>
  ELSE LET next_idx == (dept_idx + i) % Len(l.deptList)
       IN (IF next_idx # other_dept_idx /\ l.queues[<<l.deptList[next_idx + 1]>>] # <<>>
           THEN <<next_idx>> ELSE <<>>)
          \o Scan(l, dept_idx, other_dept_idx, i + 1)

\* the search started one department after the slot's current one and run
\* backwards
WaterfallBackward(l, slot_idx) ==
  LET dept_idx == l.slots[slot_idx + 1]
      other_dept_idx == l.slots[((slot_idx + 1) % 2) + 1]
      found == Scan(l, dept_idx, other_dept_idx, 0)
  IN IF l.queues[<<l.deptList[dept_idx + 1]>>] # <<>> THEN dept_idx
     ELSE IF found # <<>> THEN found[Len(found)]
     ELSE IF l.queues[<<l.deptList[other_dept_idx + 1]>>] # <<>> THEN other_dept_idx
     ELSE 0 - 1

\* the search without "next_idx != other_dept_idx"
WaterfallNoExclusion(l, slot_idx) ==
  LET dept_idx == l.slots[slot_idx + 1]
      found == Scan(l, dept_idx, 0 - 1, 0)
  IN IF l.queues[<<l.deptList[dept_idx + 1]>>] # <<>> THEN dept_idx
     ELSE IF found # <<>> THEN found[1]
     ELSE 0 - 1

\* the department index the slot uses for this cell, or -1 when every
\* department is exhausted ("continue")
Waterfall(l, slot_idx) ==
  LET dept_idx == l.slots[slot_idx + 1]
      other_dept_idx == l.slots[((slot_idx + 1) % 2) + 1]
      found == Scan(l, dept_idx, other_dept_idx, 0)
  IN IF l.queues[<<l.deptList[dept_idx + 1]>>] # <<>> THEN dept_idx
     ELSE IF found # <<>> THEN found[1]
     ELSE IF l.queues[<<l.deptList[other_dept_idx + 1]>>] # <<>> THEN other_dept_idx
     ELSE 0 - 1

UCell(p) ==
  /\ run[p].pc = "ucell"
  /\ Quiet(p)
  /\ LET l == run[p]
         slot_idx == l.col % 2
         d == Waterfall(l, slot_idx)
     IN IF d < 0
        THEN /\ run' = [run EXCEPT ![p] = UAdvance(l, l.ri, l.col, l.row + 1)]
             /\ store' = store
        ELSE LET k == <<l.deptList[d + 1]>>
                 s == Head(l.queues[k])
                 a == [sid |-> s, room |-> RoomName(l), ri |-> l.ri,
                       seat |-> UniSeatLabel(l.col, l.row), col |-> l.col,
                       row |-> l.row, alone |-> NonEmpty(l) \subseteq {k}]
                 m == [l EXCEPT !.slots[slot_idx + 1] = d, !.chosen = k,
                                !.queues[k] = Tail(@), !.log = Append(@, a)]
             IN /\ store' = [store EXCEPT ![DbOf(p)] =
                               UpdateOne(@, s, RoomName(l), a.seat)]
                /\ run' = [run EXCEPT ![p] = UAdvance(m, l.ri, l.col, l.row + 1)]
  /\ UNCHANGED scenario

\* ------------------------------------------------------------- store failure
\* the assignment whose update_one is about to be sent
Pending(l) ==
  IF l.pc = "write" THEN l.hall[l.wi]
  ELSE LET k == <<l.deptList[Waterfall(l, l.col % 2) + 1]>>
       IN [sid |-> Head(l.queues[k]), room |-> RoomName(l), ri |-> l.ri,
           seat |-> UniSeatLabel(l.col, l.row), col |-> l.col, row |-> l.row,
           alone |-> NonEmpty(l) \subseteq {k}]

\* the local state of a run whose update raised: the assignment that was not
\* written stays at hall[wi]
FailAt(l) ==
  IF l.pc = "write" THEN [l EXCEPT !.pc = "failed"]
  ELSE [l EXCEPT !.pc = "failed", !.hall = <<Pending(l)>>, !.wi = 1]

\* a failed update that also undoes the run's earlier writes
UpdateFailsRollback(p) ==
  /\ \/ run[p].pc = "write"
     \/ run[p].pc = "ucell" /\ Waterfall(run[p], run[p].col % 2) >= 0
  /\ Quiet(p)
  /\ run' = [run EXCEPT ![p] = FailAt(@)]
  /\ store' = [store EXCEPT ![DbOf(p)] = store0[DbOf(p)]]
  /\ UNCHANGED scenario

\* db.students.update_one raises: nothing catches the exception in the
\* allocation functions or in the routes, so the run ends there; the store
\* keeps what was written before
UpdateFails(p) ==
  /\ \/ run[p].pc = "write"
     \/ run[p].pc = "ucell" /\ Waterfall(run[p], run[p].col % 2) >= 0
  /\ Quiet(p)
  /\ run' = [run EXCEPT ![p] = FailAt(@)]
  /\ UNCHANGED <<scenario, store>>

\* ------------------------------------------------------------- scenarios
RegularKinds ==
  {[year |-> 1, dept |-> "CSE", div |-> "A"], [year |-> 1, dept |-> "CSE", div |-> "B"],
   [year |-> 2, dept |-> "CSE", div |-> "A"], [year |-> 1, dept |-> "ECE", div |-> "A"]}

FirstYearKinds ==
  {[year |-> 1, dept |-> d, div |-> None] : d \in {"CSE", "cse", "AIML", "ME"}}

UniversityKinds ==
  {[year |-> None, dept |-> d, div |-> None] : d \in {"CSE", "ECE", "EEE"}}

Kinds(s) ==
  CASE s = "regular" -> RegularKinds
    [] s = "firstyear" -> FirstYearKinds
    [] OTHER -> UniversityKinds

Pos(x, names) == CHOOSE i \in DOMAIN names : names[i] = x

\* a's roll numbers come before b's, or they are of one cohort
KindLeq(s, a, b) ==
  IF s = "regular"
  THEN \/ a.year < b.year
       \/ a.year = b.year /\ Pos(a.dept, DeptNames) < Pos(b.dept, DeptNames)
       \/ a.year = b.year /\ a.dept = b.dept
            /\ Pos(a.div, DivNames) <= Pos(b.div, DivNames)
  ELSE Pos(Upper(a.dept), DeptNames) <= Pos(Upper(b.dept), DeptNames)

\* up to NStud students.  The regular cursor is sorted by (year, dept, div,
\* student_id), and a student_id is a roll number within a department (CSE01,
\* CSE02, AIML01, ...), so the students are listed cohort by cohort.
PopulationsOf(s, kinds) ==
  {f \in UNION {[1..n -> kinds] : n \in 0..NStud} :
     \A i \in 1..(Len(f) - 1) : KindLeq(s, f[i], f[i + 1])}

Populations(s) == PopulationsOf(s, Kinds(s))

Shapes == [rows : 0..MaxRows, cols : 0..MaxCols]

\* a catalog is up to NRooms rooms of one shape
Catalogs == {[i \in 1..n |-> s] : n \in 0..NRooms, s \in Shapes}

BlankStore(n) == [i \in 1..n |-> [room_no |-> None, seat_no |-> None]]

\* what a student may hold from an earlier allocation
Held(i) == [room_no |-> RoomNames[1], seat_no |-> SeatLabel(0, i - 1)]

PriorStores(n) ==
  {[i \in 1..n |-> IF i \in S THEN Held(i) ELSE [room_no |-> None, seat_no |-> None]] :
     S \in SUBSET (1..n)}

\* one run of any strategy on a store without earlier allocations
Init ==
  /\ strategy \in {"regular", "firstyear", "university"}
  /\ students \in Populations(strategy)
  /\ rooms \in Catalogs
  /\ mode = "single"
  /\ store0 = [d \in DBs |-> BlankStore(Len(students))]
  /\ store = store0
  /\ run = [p \in Runs |-> Local0]

\* two university runs on the same students and rooms: on two stores, store 1
\* with any earlier allocation and store 2 with none ("pair"), or one after
\* the other on store 1 ("seq")
InitPair ==
  /\ strategy = "university"
  /\ students \in Populations(strategy)
  /\ rooms \in Catalogs
  /\ mode \in {"pair", "seq"}
  /\ \E pr \in PriorStores(Len(students)) :
       store0 = [d \in DBs |-> IF d = 1 THEN pr ELSE BlankStore(Len(students))]
  /\ store = store0
  /\ run = [p \in Runs |-> Local0]

\* two regular or first-year runs served at once on one store: one room,
\* students of two cohorts that may sit side by side
RaceKinds(s) ==
  IF s = "regular"
  THEN {k \in RegularKinds : k.dept = "CSE" /\ k.div = "A"}
  ELSE {k \in FirstYearKinds : k.dept \in {"CSE", "ME"}}

InitRace ==
  /\ strategy \in {"regular", "firstyear"}
  /\ students \in PopulationsOf(strategy, RaceKinds(strategy))
  /\ rooms \in {c \in Catalogs : Len(c) = 1}
  /\ mode = "race"
  /\ store0 = [d \in DBs |-> BlankStore(Len(students))]
  /\ store = store0
  /\ run = [p \in Runs |-> Local0]

\* one regular or first-year run on a store that may hold earlier allocations
InitPrior ==
  /\ strategy \in {"regular", "firstyear"}
  /\ students \in PopulationsOf(strategy, RaceKinds(strategy))
  /\ rooms \in Catalogs
  /\ mode = "single"
  /\ \E pr \in PriorStores(Len(students)) : store0 = [d \in DBs |-> pr]
  /\ store = store0
  /\ run = [p \in Runs |-> Local0]

\* the students of the given kinds, n[k] of kind number k, listed kind by kind
RECURSIVE Listed(_, _, _)
Listed(kinds, n, k) ==
  IF k > Len(kinds) THEN <<>>
  ELSE [i \in 1..n[k] |-> kinds[k]] \o Listed(kinds, n, k + 1)

UniversityDepts == <<"CSE", "ECE", "EEE", "ME">>

\* one university run over up to MaxPerDept students of each of four
\* departments (roll numbers CSE01.., ECE01.., EEE01.., ME01..)
InitDepts ==
  /\ strategy = "university"
  /\ \E n \in [DOMAIN UniversityDepts -> 0..MaxPerDept] :
       students = Listed([k \in DOMAIN UniversityDepts |->
                            [year |-> None, dept |-> UniversityDepts[k], div |-> None]],
                         n, 1)
  /\ rooms \in Catalogs
  /\ mode = "single"
  /\ \E pr \in {BlankStore(Len(students)),
                  [i \in 1..Len(students) |-> Held(i)]} :
       store0 = [d \in DBs |-> pr]
  /\ store = store0
  /\ run = [p \in Runs |-> Local0]

\* one first-year run over up to NMid students of three departments, two of
\* them a forbidden pair, and one room
InitMid ==
  /\ strategy = "firstyear"
  /\ \E n \in {m \in [1..3 -> 0..NMid] : m[1] + m[2] + m[3] <= NMid} :
       students = Listed(<<[year |-> 1, dept |-> "AIML", div |-> None],
                           [year |-> 1, dept |-> "CSE", div |-> None],
                           [year |-> 1, dept |-> "ME", div |-> None]>>, n, 1)
  /\ rooms \in {c \in Catalogs : Len(c) = 1}
  /\ mode = "single"
  /\ store0 = [d \in DBs |-> BlankStore(Len(students))]
  /\ store = store0
  /\ run = [p \in Runs |-> Local0]

\* two regular or first-year runs, one after the other, on one store without
\* earlier allocations and on the same rooms
InitSeq ==
  /\ strategy \in {"regular", "firstyear"}
  /\ students \in PopulationsOf(strategy, RaceKinds(strategy))
  /\ rooms \in Catalogs
  /\ mode = "seq"
  /\ store0 = [d \in DBs |-> BlankStore(Len(students))]
  /\ store = store0
  /\ run = [p \in Runs |-> Local0]

\* rooms whose row or column count is negative or not a number
BadDims == {NotANumber, 0 - 1}

GoodShapes == [rows : 1..MaxRows, cols : 1..MaxCols]

MalformedShapes ==
  {s \in [rows : BadDims \cup (1..MaxRows), cols : BadDims \cup (1..MaxCols)] :
     s.rows \in BadDims \/ s.cols \in BadDims}

\* a malformed room, alone or before or after a well-formed one
MalformedCatalogs ==
  {<<b>> : b \in MalformedShapes}
    \cup {<<b, g>> : b \in MalformedShapes, g \in GoodShapes}
    \cup {<<g, b>> : b \in MalformedShapes, g \in GoodShapes}

MalformedKinds(s) ==
  CASE s = "regular" ->
         {k \in RegularKinds : k.year = 1 /\ k.div = "A"}
           \cup {[year |-> NotANumber, dept |-> "CSE", div |-> "A"]}
    [] s = "firstyear" -> {k \in FirstYearKinds : k.dept \in {"CSE", "ME"}}
    [] OTHER -> {k \in UniversityKinds : k.dept \in {"CSE", "ECE"}}

\* one run of any strategy on a catalog with a malformed room
InitMalformed ==
  /\ strategy \in {"regular", "firstyear", "university"}
  /\ students \in PopulationsOf(strategy, MalformedKinds(strategy))
  /\ rooms \in MalformedCatalogs
  /\ mode = "single"
  /\ store0 = [d \in DBs |-> BlankStore(Len(students))]
  /\ store = store0
  /\ run = [p \in Runs |-> Local0]

Next ==
  \E p \in Runs :
    \/ Fetch(p)
    \/ ColumnStart(p)
    \/ RowStep(p)
    \/ WriteAssign(p)
    \/ UReset(p)
    \/ UFetch(p)
    \/ UCell(p)

Spec == Init /\ [][Next]_vars

NextUniversity == \E p \in Runs : UReset(p) \/ UFetch(p) \/ UCell(p)

SpecPair == InitPair /\ [][NextUniversity]_vars

NextFiller ==
  \E p \in Runs : Fetch(p) \/ ColumnStart(p) \/ RowStep(p) \/ WriteAssign(p)

SpecRace == InitRace /\ [][NextFiller]_vars

SpecDepts == InitDepts /\ [][NextUniversity]_vars

SpecMid == InitMid /\ [][NextFiller]_vars

SpecSeq == InitSeq /\ [][NextFiller]_vars

SpecPrior == InitPrior /\ [][NextFiller]_vars

SpecMalformed == InitMalformed /\ [][Next]_vars

\* one run of any strategy on a store whose updates may fail
NextFail == Next \/ \E p \in Runs : UpdateFails(p)

SpecFail == Init /\ [][NextFail]_vars

\* ------------------------------------------------------------- properties
\* the assignments a run has made so far, in the order it made them
Log(p) == run[p].log

Seated(p) == {Log(p)[i].sid : i \in DOMAIN Log(p)}

\* C1: in a single run of any strategy no two assignments share (room,
\* column index, row index), and none share (room, seat label).
C1_NoSharedCell ==
  \A p \in Runs : \A i, j \in DOMAIN Log(p) :
    i < j =>
      /\ <<Log(p)[i].room, Log(p)[i].col, Log(p)[i].row>>
           # <<Log(p)[j].room, Log(p)[j].col, Log(p)[j].row>>
      /\ <<Log(p)[i].room, Log(p)[i].seat>> # <<Log(p)[j].room, Log(p)[j].seat>>

\* a finished run that seated students in two columns and two rows of a room
C1_Witness ==
  /\ run[1].pc = "done"
  /\ \E i, j \in DOMAIN Log(1) :
       /\ Log(1)[i].room = Log(1)[j].room
       /\ Log(1)[i].col # Log(1)[j].col
       /\ Log(1)[i].row # Log(1)[j].row

\* C2: in a single run of any strategy every student receives at most one
\* seat assignment.
C2_AtMostOneSeat ==
  \A p \in Runs : \A i, j \in DOMAIN Log(p) :
    i < j => Log(p)[i].sid # Log(p)[j].sid

\* a finished run that seated every student of a population of several
C2_Witness ==
  /\ run[1].pc = "done"
  /\ Len(students) > 1
  /\ Seated(1) = Ids

\* the order in which cells are filled: rooms in processing order, a room
\* column by column, a column top to bottom
FilledBefore(a, b) ==
  \/ a.ri < b.ri
  \/ a.ri = b.ri /\ a.col < b.col
  \/ a.ri = b.ri /\ a.col = b.col /\ a.row < b.row

\* C3: of two seated students of one cohort the one with the smaller
\* identifier sits in the earlier-filled cell, and no student is seated while
\* a student of its cohort with a smaller identifier waits in the queue.
C3_QueueOrder ==
  \A p \in Runs :
    /\ \A i, j \in DOMAIN Log(p) :
         (KeyOf(Log(p)[i].sid) = KeyOf(Log(p)[j].sid) /\ Log(p)[i].sid < Log(p)[j].sid)
           => (i < j /\ FilledBefore(Log(p)[i], Log(p)[j]))
    /\ \A i \in DOMAIN Log(p) : \A k \in run[p].keys :
         \A w \in DOMAIN run[p].queues[k] :
           k = KeyOf(Log(p)[i].sid) => Log(p)[i].sid < run[p].queues[k][w]

\* two students of one cohort are seated while a third one still waits
C3_Witness ==
  \E i, j \in DOMAIN Log(1) :
    /\ i < j
    /\ KeyOf(Log(1)[i].sid) = KeyOf(Log(1)[j].sid)
    /\ run[1].queues[KeyOf(Log(1)[i].sid)] # <<>>

\* the compatibility predicate on two cohort keys
CohortCompatible(a, b) ==
  IF strategy = "regular" THEN a[2] # b[2] \/ a[1] # b[1]
  ELSE IsCompatible(a[1], b[1])

\* the test the filler applies to a cohort key and the left-hand student
PassesTest(gk, left) ==
  IF strategy = "regular" THEN RegularCompatible(gk, left)
  ELSE IsCompatible(gk[1], students[left].dept)

Fillers == {p \in Runs : strategy \in {"regular", "firstyear"}}

\* C4 as stated: for adjacent columns c-1 and c of a room without a mid-column
\* switch, the cohort chosen at the start of column c is compatible with the
\* cohort chosen at the start of column c-1.
C4_AsStated ==
  \A p \in Fillers : \A j \in 2..Len(run[p].colinfo) :
    (~run[p].colinfo[j - 1].switched /\ ~run[p].colinfo[j].switched)
      => CohortCompatible(run[p].colinfo[j].key, run[p].colinfo[j - 1].key)

\* C4 amended: the cohort chosen at the start of column c passes the
\* strategy's test against the student in row 0 of column c-1 (for regular:
\* it is compatible with the cohort chosen at the start of column c-1) unless
\* no non-empty cohort passed the test, and then a fallback tier chose it.
C4_CompatibleUnlessFallback ==
  \A p \in Fillers : \A j \in 2..Len(run[p].colinfo) :
    LET left == run[p].grid[0][j - 2].sid
        info == run[p].colinfo[j]
    IN IF info.tier = 1
       THEN /\ PassesTest(info.key, left)
            /\ strategy = "regular"
                 => CohortCompatible(info.key, run[p].colinfo[j - 1].key)
       ELSE \A gk \in info.avail : ~PassesTest(gk, left)

\* two adjacent columns without a switch, the right one chosen among the
\* compatible cohorts while an incompatible cohort had students too
C4_Witness ==
  /\ strategy \in {"regular", "firstyear"}
  /\ Len(run[1].colinfo) >= 2
  /\ run[1].colinfo[2].tier = 1
  /\ ~run[1].colinfo[1].switched /\ ~run[1].colinfo[2].switched
  /\ run[1].pc = "col"
  /\ \E gk \in run[1].colinfo[2].avail : ~PassesTest(gk, run[1].grid[0][0].sid)

Forbidden(dept_a, dept_b) == {Upper(dept_a), Upper(dept_b)} \in ForbiddenPairs

\* the cells (row, column) of the current grid whose left neighbour and
\* themselves hold students of a forbidden pair of departments
ForbiddenCells(p) ==
  {rc \in {<<r, c>> : r \in DOMAIN run[p].grid, c \in 1..(Room(run[p]).cols - 1)} :
     /\ run[p].grid[rc[1]][rc[2]].sid # NoStudent
     /\ run[p].grid[rc[1]][rc[2] - 1].sid # NoStudent
     /\ Forbidden(students[run[p].grid[rc[1]][rc[2] - 1].sid].dept,
                  students[run[p].grid[rc[1]][rc[2]].sid].dept)}

InRoom(p) == run[p].pc \in {"col", "row", "write"}

\* C5 as stated: first-year places a forbidden pair in one row of adjacent
\* columns only when the right-hand cohort was selected by the tier-3 fallback.
C5_AsStated ==
  \A p \in Runs :
    (strategy = "firstyear" /\ InRoom(p)) =>
      \A rc \in ForbiddenCells(p) : run[p].grid[rc[1]][rc[2]].tier = 3

\* C5 amended: first-year places a forbidden pair in one row of adjacent
\* columns only when the right-hand cohort was selected by a fallback tier
\* (2 or 3) or was tested against another row of the left column; never when
\* it was selected at tier 1 against that left-hand student.
C5_ForbiddenOnlyByFallbackOrOtherRow ==
  \A p \in Runs :
    (strategy = "firstyear" /\ InRoom(p)) =>
      \A rc \in ForbiddenCells(p) :
        \/ run[p].grid[rc[1]][rc[2]].tier \in {2, 3}
        \/ run[p].grid[rc[1]][rc[2]].ref # rc[1]

\* a forbidden pair side by side, the right-hand cohort selected at tier 2
C5_Witness ==
  /\ strategy = "firstyear"
  /\ InRoom(1)
  /\ \E rc \in ForbiddenCells(1) : run[1].grid[rc[1]][rc[2]].tier = 2

\* C6: two university runs on stores with the same students and rooms but
\* different earlier room/seat values (the second run may also start from what
\* the first one left) make the same assignments and end with identical room
\* and seat values for every student.
C6_SameResult ==
  (run[1].pc = "done" /\ run[2].pc = "done") =>
    /\ store[DbOf(1)] = store[DbOf(2)]
    /\ Log(1) = Log(2)

\* both runs are over, they started from different stores, and they seated
\* some students and left others without a seat
C6_Witness ==
  /\ mode = "pair" /\ run[1].pc = "done" /\ run[2].pc = "done"
  /\ store0[1] # store0[2]
  /\ Seated(1) # {} /\ Seated(1) # Ids

\* the last assignment a run made to student i
LastEntry(p, i) ==
  Log(p)[CHOOSE n \in DOMAIN Log(p) :
           /\ Log(p)[n].sid = i
           /\ \A m \in DOMAIN Log(p) : Log(p)[m].sid = i => m <= n]

\* no run has started on p's store after p
Latest(p) == \A q \in Runs : (q > p /\ DbOf(q) = DbOf(p)) => run[q].pc = "idle"

\* C7: after a completed university run a student has a room and a seat if
\* and only if this run seated it (and then the ones this run gave it); every
\* other student has null room and null seat whatever it held before.
C7_OnlyThisRunsSeats ==
  \A p \in Runs :
    (strategy = "university" /\ run[p].pc = "done" /\ Latest(p)) =>
      \A i \in Ids :
        IF i \in Seated(p)
        THEN /\ store[DbOf(p)][i].room_no = LastEntry(p, i).room
             /\ store[DbOf(p)][i].seat_no = LastEntry(p, i).seat
             /\ store[DbOf(p)][i].room_no # None
             /\ store[DbOf(p)][i].seat_no # None
        ELSE /\ store[DbOf(p)][i].room_no = None
             /\ store[DbOf(p)][i].seat_no = None

\* a completed run left without a seat a student that held one before
C7_Witness ==
  /\ strategy = "university" /\ run[1].pc = "done"
  /\ Seated(1) # {}
  /\ \E i \in Ids \ Seated(1) : store0[1][i].room_no # None

SlotDept(p, n) == <<run[p].deptList[run[p].slots[n] + 1]>>

\* C8: in every state of a university run, if both slots point to the same
\* department index, no other department has a remaining student.
C8_SlotsMeetOnlyOnLastDepartment ==
  \A p \in Runs :
    (strategy = "university" /\ run[p].pc \in {"ucell", "done"}
       /\ run[p].deptList # <<>> /\ run[p].slots[1] = run[p].slots[2]) =>
      \A k \in run[p].keys \ {SlotDept(p, 1)} : run[p].queues[k] = <<>>

\* both slots on one department of several, which still has students
C8_Witness ==
  /\ strategy = "university" /\ run[1].pc = "ucell"
  /\ Len(run[1].deptList) > 1
  /\ run[1].slots[1] = run[1].slots[2]
  /\ run[1].queues[SlotDept(1, 1)] # <<>>

\* the pairs of assignments of a run that sit side by side in a row of a room
\* with students of one department
SameDeptNeighbours(p) ==
  {ij \in (DOMAIN Log(p)) \X (DOMAIN Log(p)) :
     /\ Log(p)[ij[1]].room = Log(p)[ij[2]].room
     /\ Log(p)[ij[1]].row = Log(p)[ij[2]].row
     /\ Log(p)[ij[1]].col + 1 = Log(p)[ij[2]].col
     /\ students[Log(p)[ij[1]].sid].dept = students[Log(p)[ij[2]].sid].dept}

\* C9: university seats two students of one department side by side in a row
\* only if no other department had a remaining student when the right-hand
\* cell was filled.
C9_SameDeptOnlyWhenAlone ==
  \A p \in Runs :
    strategy = "university" => \A ij \in SameDeptNeighbours(p) : Log(p)[ij[2]].alone

\* students of one department side by side in a population of several
\* departments
C9_Witness ==
  /\ strategy = "university"
  /\ Len(run[1].deptList) > 1
  /\ SameDeptNeighbours(1) # {}

\* the pairs of distinct students that hold the same room and seat in store d
Collisions(d) ==
  {ij \in Ids \X Ids :
     /\ ij[1] # ij[2]
     /\ store[d][ij[1]].room_no # None
     /\ store[d][ij[1]].room_no = store[d][ij[2]].room_no
     /\ store[d][ij[1]].seat_no = store[d][ij[2]].seat_no}

\* run p assigned to student i the room and seat that store d holds for it
Assigned(p, d, i) ==
  \E n \in DOMAIN Log(p) :
    /\ Log(p)[n].sid = i
    /\ Log(p)[n].room = store[d][i].room_no
    /\ Log(p)[n].seat = store[d][i].seat_no

\* C10: two regular or first-year runs served at once on one store can leave
\* two students on one seat, although a run alone is collision-free: a
\* collision in the store always joins assignments of both runs, and there
\* is none while only one run has assigned.
C10_CollisionsNeedBothRuns ==
  /\ \A ij \in Collisions(1) :
       \E p, q \in Runs : p # q /\ Assigned(p, 1, ij[1]) /\ Assigned(q, 1, ij[2])
  /\ (Log(1) = <<>> \/ Log(2) = <<>>) => Collisions(1) = {}

\* both runs are over, one student was assigned by both, and two students
\* hold the same room and seat
C10_Witness ==
  /\ mode = "race"
  /\ run[1].pc = "done" /\ run[2].pc = "done"
  /\ Seated(1) \cap Seated(2) # {}
  /\ Collisions(1) # {}

\* the assignments of a failed run that reached the store: for the regular
\* and first-year runs, all but the failed one and the rest of its room
Written(p) ==
  IF strategy = "university" THEN Log(p)
  ELSE SubSeq(Log(p), 1, Len(Log(p)) - Len(run[p].hall) + run[p].wi - 1)

\* what a student holds when run p has not written it
Untouched(p, i) ==
  IF strategy = "university" THEN [room_no |-> None, seat_no |-> None]
  ELSE store0[DbOf(p)][i]

FailedRuns == {p \in Runs : run[p].pc = "failed"}

\* C11: when a student update fails the run ends there: the store holds
\* exactly the assignments written before the failure (none is rolled back,
\* none is written afterwards) and the failed student keeps its old values.
C11_FailureKeepsEarlierWrites ==
  \A p \in FailedRuns :
    LET w == Written(p)
        done == {w[n].sid : n \in DOMAIN w}
    IN /\ \A n \in DOMAIN w :
            store[DbOf(p)][w[n].sid] = [room_no |-> w[n].room, seat_no |-> w[n].seat]
       /\ \A i \in Ids \ done :
            store[DbOf(p)][i] = Untouched(p, i)
       /\ run[p].hall[run[p].wi].sid \notin done

\* an update failed after another student had been written
C11_Witness ==
  /\ run[1].pc = "failed"
  /\ Written(1) # <<>>
  /\ store[1][run[1].hall[run[1].wi].sid].room_no = None

Negative(v) == ~IntRaises(v) /\ v < 0

\* run p went through every room of the catalog and returned
Completed(p) == run[p].pc = "done" /\ run[p].ri > Len(rooms)

\* C12 as stated: a run never completes normally on a catalog that has a
\* room with a negative row or column count.
C12_AsStated ==
  \A p \in Runs :
    Completed(p) =>
      \A i \in DOMAIN rooms : ~Negative(rooms[i].rows) /\ ~Negative(rooms[i].cols)

\* C13 as stated: a run that fails on a non-numeric row count, column count
\* or year leaves every student's room and seat as they were before the run.
C13_AsStated ==
  \A p \in Runs :
    run[p].pc = "invalid" => store[DbOf(p)] = store0[DbOf(p)]

\* the students without a room before the first run
Unallocated0 == {i \in Ids : store0[1][i].room_no = None}

\* C14: a regular or first-year run that finds no unallocated student, or no
\* room, writes nothing (every student's room and seat stay as they were)
\* and returns without an assignment.
C14_NothingToDo ==
  \A p \in Fillers :
    (Unallocated0 = {} \/ Len(rooms) = 0) =>
      /\ store = store0
      /\ Log(p) = <<>>
      /\ run[p].pc \in {"idle", "done"}

\* a finished run over rooms with seats whose students were all allocated
\* before
C14_Witness ==
  /\ run[1].pc = "done"
  /\ Len(students) > 1
  /\ Unallocated0 = {}
  /\ Len(rooms) > 0 /\ rooms[1].rows > 0 /\ rooms[1].cols > 0

\* C15 as stated: a university run without rooms leaves every student's room
\* and seat as they were before the run.
C15_AsStated ==
  \A p \in Runs :
    (strategy = "university" /\ Len(rooms) = 0 /\ run[p].pc = "done")
      => store[DbOf(p)] = store0[DbOf(p)]

\* students AIML01, CSE01, CSE02 in ascending student_id order and one room
\* of 2 rows by 2 columns, first-year strategy
Example16 ==
  /\ strategy = "firstyear"
  /\ students = <<[year |-> 1, dept |-> "AIML", div |-> None],
                  [year |-> 1, dept |-> "CSE", div |-> None],
                  [year |-> 1, dept |-> "CSE", div |-> None]>>
  /\ rooms = <<[rows |-> 2, cols |-> 2]>>

\* the students of i's cohort
Cohort(i) == {j \in Ids : KeyOf(j) = KeyOf(i)}

\* C16: in the first-year example every outcome seats all three students, a
\* column changes cohort only below the last student of the cohort it held,
\* and a CSE student and AIML01 sit side by side only where the right-hand
\* cohort was selected by tier 2 or tier 3.
C16_FirstYearExample ==
  Example16 =>
    /\ run[1].pc = "done" =>
         /\ Seated(1) = Ids
         /\ \A i \in Ids : store[1][i].room_no = RoomNames[1]
    /\ \A n \in 1..(Len(Log(1)) - 1) :
         (Log(1)[n].col = Log(1)[n + 1].col
            /\ KeyOf(Log(1)[n].sid) # KeyOf(Log(1)[n + 1].sid))
           => Cohort(Log(1)[n].sid) \subseteq {Log(1)[m].sid : m \in 1..n}
    /\ InRoom(1) =>
         \A rc \in ForbiddenCells(1) : run[1].grid[rc[1]][rc[2]].tier \in {2, 3}

\* the room of the example is filled: three students, a CSE student beside
\* AIML01
C16_Witness ==
  /\ Example16
  /\ run[1].pc = "write"
  /\ Len(run[1].hall) = 3
  /\ ForbiddenCells(1) # {}

\* the students of a department, in ascending identifier order
OfDept(d) == SortedSeq({i \in Ids : students[i].dept = d})

\* departments CSE, ECE and EEE with two students or more each and one room
\* of 2 rows by 2 columns, university strategy
Example17 ==
  /\ strategy = "university"
  /\ \A d \in {"CSE", "ECE", "EEE"} : Len(OfDept(d)) >= 2
  /\ \A i \in Ids : students[i].dept \in {"CSE", "ECE", "EEE"}
  /\ rooms = <<[rows |-> 2, cols |-> 2]>>

Seat(i, room_no, seat_no) == [sid |-> i, room |-> room_no, seat |-> seat_no]

\* C17: in the university example slot 0 starts at CSE and slot 1 at ECE;
\* A1 and A2 go to the two lowest CSE students, B1 and B2 to the two lowest
\* ECE students, in order, and every other student stays without a seat.
C17_UniversityExample ==
  Example17 =>
    /\ (run[1].pc = "ucell" /\ Log(1) = <<>>) =>
         /\ run[1].deptList[run[1].slots[1] + 1] = "CSE"
         /\ run[1].deptList[run[1].slots[2] + 1] = "ECE"
    /\ run[1].pc = "done" =>
         /\ [n \in DOMAIN Log(1) |->
               Seat(Log(1)[n].sid, Log(1)[n].room, Log(1)[n].seat)]
              = <<Seat(OfDept("CSE")[1], "R1", "A1"), Seat(OfDept("CSE")[2], "R1", "A2"),
                  Seat(OfDept("ECE")[1], "R1", "B1"), Seat(OfDept("ECE")[2], "R1", "B2")>>
         /\ \A i \in Ids :
              store[1][i] =
                IF \E n \in DOMAIN Log(1) : Log(1)[n].sid = i
                THEN LET n == CHOOSE n \in DOMAIN Log(1) : Log(1)[n].sid = i
                     IN [room_no |-> Log(1)[n].room, seat_no |-> Log(1)[n].seat]
                ELSE [room_no |-> None, seat_no |-> None]

\* the example's run is over: four students are seated, a third CSE student
\* and a third ECE student are not
C17_Witness ==
  /\ Example17
  /\ run[1].pc = "done"
  /\ Len(OfDept("CSE")) > 2 /\ Len(OfDept("ECE")) > 2
  /\ Len(Log(1)) = 4

\* the rows of the column just left that stayed empty
EmptyBelow(l) == {r \in DOMAIN l.grid : l.grid[r][l.col - 1].sid = NoStudent}

\* C18 as stated: the regular filler leaves the rest of a column empty only
\* when every cohort queue is empty.
C18_AsStated ==
  \A p \in Runs :
    (strategy = "regular" /\ run[p].pc = "col" /\ run[p].col > 0
       /\ EmptyBelow(run[p]) # {})
      => NonEmpty(run[p]) = {}

\* the entries of the log for cells of the current room where the cohort was
\* re-selected mid-column against a left neighbour
Reselected(p) ==
  {n \in DOMAIN Log(p) :
     /\ Log(p)[n].ri = run[p].ri
     /\ Log(p)[n].col > 0 /\ Log(p)[n].row > 0
     /\ run[p].grid[Log(p)[n].row][Log(p)[n].col].ref = Log(p)[n].row}

\* the cohorts that had students when entry n of the log was chosen
AvailableAt(p, n) ==
  {KeyOf(Log(p)[m].sid) : m \in n..Len(Log(p))} \cup NonEmpty(run[p])

\* C19 as stated: on a first-year mid-column re-selection, if no non-empty
\* cohort is compatible with the left neighbour but one has another
\* department, the chosen cohort has another department than the neighbour.
C19_AsStated ==
  \A p \in Runs :
    (strategy = "firstyear" /\ InRoom(p)) =>
      \A n \in Reselected(p) :
        LET a == Log(p)[n]
            left == students[run[p].grid[a.row][a.col - 1].sid].dept
        IN (/\ \A g \in AvailableAt(p, n) : ~IsCompatible(g[1], left)
            /\ \E g \in AvailableAt(p, n) : g[1] # left)
             => KeyOf(a.sid)[1] # left

\* C20: at every column start of a regular or first-year run the chosen
\* cohort has students and comes from the strictest tier that is not empty,
\* tested against the student in row 0 of the previous column: a compatible
\* cohort if there is one; else, for first-year, a cohort of another
\* department if there is one; else any cohort with students.  Without a left
\* neighbour any cohort with students may be chosen.
C20_StrictestTier ==
  \A p \in Fillers : \A j \in DOMAIN run[p].colinfo :
    LET info == run[p].colinfo[j]
        pass == {g \in info.avail : PassesTest(g, run[p].grid[0][j - 2].sid)}
        other == {g \in info.avail :
                    g[1] # students[run[p].grid[0][j - 2].sid].dept}
    IN /\ info.key \in info.avail
       /\ j = 1 => info.tier = 1
       /\ j > 1 =>
            /\ pass # {} => (info.key \in pass /\ info.tier = 1)
            /\ (pass = {} /\ strategy = "firstyear" /\ other # {})
                 => (info.key \in other /\ info.tier = 2)
            /\ (pass = {} /\ (strategy = "regular" \/ other = {}))
                 => info.tier = 3

\* a first-year column chosen by tier 2 while a cohort of the neighbour's own
\* department had students too
C20_Witness ==
  /\ strategy = "firstyear"
  /\ Len(run[1].colinfo) >= 2
  /\ run[1].colinfo[2].tier = 2
  /\ \E g \in run[1].colinfo[2].avail : g[1] = students[run[1].grid[0][0].sid].dept

\* department number d (from 0) of run p's sorted list still has students
Has(p, d) == run[p].queues[<<run[p].deptList[d + 1]>>] # <<>>

\* how far department d lies after department cur, going forward with
\* wraparound
Ahead(p, cur, d) == (d - cur) % Len(run[p].deptList)

\* C21: a university step leaves a slot's pointer alone while its department
\* has students; when it is exhausted the pointer moves to the nearest
\* department ahead (with wraparound) that has students and is not the other
\* slot's; if there is none it takes the other slot's department when that
\* has students, and otherwise stays.  The other slot's pointer never moves.
C21_WaterfallOrder ==
  [][\A p \in Runs :
       (run[p].pc = "ucell" /\ run'[p] # run[p] /\ run'[p].pc # "failed") =>
         LET slot == (run[p].col % 2) + 1
             other == ((run[p].col + 1) % 2) + 1
             cur == run[p].slots[slot]
             oth == run[p].slots[other]
             free == {d \in 0..(Len(run[p].deptList) - 1) : d # oth /\ Has(p, d)}
             new == run'[p].slots[slot]
         IN /\ run'[p].slots[other] = oth
            /\ Has(p, cur) => new = cur
            /\ (~Has(p, cur) /\ free # {}) =>
                 (new \in free /\ \A d \in free : Ahead(p, cur, new) <= Ahead(p, cur, d))
            /\ (~Has(p, cur) /\ free = {} /\ Has(p, oth)) => new = oth
            /\ (~Has(p, cur) /\ free = {} /\ ~Has(p, oth)) => new = cur]_vars

\* slot 0 has moved from CSE to EEE, past ECE, which the other slot holds and
\* which still has students, and not to ME, which has students too
C21_Witness ==
  /\ strategy = "university"
  /\ run[1].pc = "ucell"
  /\ run[1].deptList = <<"CSE", "ECE", "EEE", "ME">>
  /\ run[1].slots = <<2, 1>>
  /\ Has(1, 1) /\ Has(1, 3)

\* the number of cells of the first n rooms
RECURSIVE Cells(_)
Cells(n) == IF n = 0 THEN 0 ELSE Cells(n - 1) + rooms[n].rows * rooms[n].cols

Min(a, b) == IF a <= b THEN a ELSE b

InStore(d) == {i \in Ids : store[d][i].room_no # None}

\* C22: a first-year or university run leaves a cell empty only when every
\* cohort queue is empty: while students wait, the room just filled is full
\* (first-year) and every cell passed so far holds a student (university); a
\* completed run has seated min(students, cells of all rooms) students.
C22_NoEmptyCellWhileStudentsWait ==
  \A p \in Runs :
    /\ (strategy \in {"firstyear", "university"} /\ run[p].pc = "done") =>
         /\ Cardinality(Seated(p)) = Min(Len(students), Cells(Len(rooms)))
         /\ InStore(DbOf(p)) = Seated(p)
    /\ (strategy = "firstyear" /\ run[p].pc = "write" /\ NonEmpty(run[p]) # {}) =>
         Len(run[p].hall) = Room(run[p]).rows * Room(run[p]).cols
    /\ (strategy = "university" /\ run[p].pc = "ucell" /\ NonEmpty(run[p]) # {}) =>
         Len(Log(p)) = Cells(run[p].ri - 1) + run[p].col * Room(run[p]).rows + run[p].row

\* a completed first-year run over students of a forbidden pair that filled
\* every cell of two rooms and left a student without a seat
C22_Witness ==
  /\ strategy = "firstyear"
  /\ run[1].pc = "done"
  /\ Len(rooms) = 2
  /\ 1 < Cells(Len(rooms)) /\ Cells(Len(rooms)) < Len(students)
  /\ \E i, j \in Ids : Forbidden(students[i].dept, students[j].dept)

\* C23 as stated: on rooms with non-negative row and column counts no run
\* raises an exception while it fills a room.
C23_AsStated ==
  \A p \in Runs :
    (\A i \in DOMAIN rooms : rooms[i].rows >= 0 /\ rooms[i].cols >= 0)
      => run[p].pc # "crashed"

\* C24: a regular or first-year run assigns and writes only students that
\* had no room when it read the store; a student that had a room before the
\* run keeps its room and seat.
C24_AllocatedUntouched ==
  strategy \in {"regular", "firstyear"} =>
    /\ Seated(1) \subseteq Unallocated0
    /\ \A i \in Ids \ Unallocated0 : store[1][i] = store0[1][i]
    /\ \A i \in Ids : store[1][i] # store0[1][i] => i \in Seated(1)

\* a finished run that seated a student while another one held a room from
\* before
C24_Witness ==
  /\ strategy \in {"regular", "firstyear"}
  /\ run[1].pc = "done"
  /\ Seated(1) # {}
  /\ Ids \ Unallocated0 # {}
  /\ InStore(1) = Ids

\* C25 as stated: a first-year cohort is never chosen by tier 1 or tier 2 for
\* a column whose row-0 left neighbour is of that cohort, in whatever letter
\* case the neighbour's department is stored.
C25_AsStated ==
  \A p \in Runs :
    strategy = "firstyear" =>
      \A j \in 2..Len(run[p].colinfo) :
        run[p].colinfo[j].tier \in {1, 2}
          => run[p].colinfo[j].key # KeyOf(run[p].grid[0][j - 2].sid)

\* C26 as stated: when regular or first-year runs have completed one after
\* the other on the same store and rooms, no two students hold the same room
\* and seat.
C26_AsStated ==
  (strategy \in {"regular", "firstyear"}
     /\ \A p \in Runs : run[p].pc \in {"idle", "done"})
    => Collisions(1) = {}
====
